---- MODULE Spec2Model ----
(***************************************************************************)
(* One render cycle of streamlit_app.py: the CSV is loaded, coerced,       *)
(* rounded and combined, the ceiling and the sidebar selections filter it, *)
(* the frame is partitioned and the two scatter charts are drawn.          *)
(*                                                                         *)
(* Numbers are fixed-point hundredths (4.2 kWh/Nm3 is 420, 800 Nm3/h is    *)
(* 80000), so that round(0), round(1) and int() do real work.  A missing   *)
(* value (pandas NaN) is the sentinel NaN; every comparison with it is     *)
(* false, as in IEEE arithmetic.                                           *)
(***************************************************************************)
EXTENDS Integers, Sequences, FiniteSets, TLC

VARIABLES
    pc,                  \* position of the script in the render cycle
    df,                  \* line 17: the frame read from the sheet
    df_filtered,         \* lines 35, 38, 51, 69
    selected_companies,  \* line 44
    selected_locations,  \* line 48
    no_data,             \* line 55: the "No data available" message was written
    prod_slider,         \* lines 63-68: the production-range control
    power_slider,        \* lines 77-82: the power-range control
    power_min,           \* lines 73, 77
    power_max,           \* lines 74, 77
    df_filtered_stack,   \* lines 83, 88
    df_filtered_system,  \* lines 85, 89
    df_with_stack_only,  \* line 100
    df_with_system_only, \* line 103
    df_with_both,        \* line 106
    net_prod_max_all,    \* line 112
    power_max_all,       \* line 116
    fig_stack,           \* lines 121-147
    fig_system           \* lines 151-177

vars == <<pc, df, df_filtered, selected_companies, selected_locations, no_data,
          prod_slider, power_slider, power_min, power_max, df_filtered_stack,
          df_filtered_system, df_with_stack_only, df_with_system_only,
          df_with_both, net_prod_max_all, power_max_all, fig_stack, fig_system>>

(***************************************************************************)
(* Values                                                                  *)
(***************************************************************************)
\* pandas NaN: what a blank cell reads as and what errors='coerce' yields
NaN == -1

\* a cell holding text that is no number ("n/a", "TBD")
Text == -2

\* the largest number of rows of a sheet
MaxRows == 2

isna(x) == x = NaN

\* IEEE comparisons: false as soon as one side is NaN
Lt(a, b) == ~isna(a) /\ ~isna(b) /\ a < b
Le(a, b) == ~isna(a) /\ ~isna(b) /\ a <= b
Ge(a, b) == Le(b, a)
Gt(a, b) == Lt(b, a)

\* Python's builtin min(a, b): b when b < a, else a
PyMin(a, b) == IF Lt(b, a) THEN b ELSE a

\* Python's builtin max(a, b): b when b > a, else a
PyMax(a, b) == IF Gt(b, a) THEN b ELSE a

\* pd.to_numeric(col, errors='coerce') on one cell
to_numeric(c) == IF c = Text THEN NaN ELSE c

\* Series.round on one value: round half to even to a multiple of q hundredths
RoundTo(x, q) ==
    IF isna(x) THEN NaN
    ELSE LET lo == (x \div q) * q
             r  == x - lo
         IN  IF 2 * r < q THEN lo
             ELSE IF 2 * r > q THEN lo + q
             ELSE IF (x \div q) % 2 = 0 THEN lo ELSE lo + q

\* Series.round(0) and Series.round(1)
round0(x) == RoundTo(x, 100)
round1(x) == RoundTo(x, 10)

\* int(x) of a non-negative float: the whole units
int(x) == x \div 100

\* a whole number of units as a fixed-point value
units(n) == n * 100

\* combine_first with the two columns the wrong way round
combine_first_swapped(a, b) == IF ~isna(b) THEN b ELSE a

\* Series.combine_first(other) on one row: self unless it is missing
combine_first(a, b) == IF ~isna(a) THEN a ELSE b

(***************************************************************************)
(* Frames: sequences of rows, each carrying its index label                *)
(***************************************************************************)
Range(s) == {s[i] : i \in 1..Len(s)}

Column(d, col) == {d[i][col] : i \in 1..Len(d)}

Present(d, col) == {v \in Column(d, col) : ~isna(v)}

\* Series.min(): the least present value, NaN when there is none
ColMin(d, col) ==
    IF Present(d, col) = {} THEN NaN
    ELSE CHOOSE v \in Present(d, col) : \A w \in Present(d, col) : v <= w

\* Series.max(): the largest present value, NaN when there is none
ColMax(d, col) ==
    IF Present(d, col) = {} THEN NaN
    ELSE CHOOSE v \in Present(d, col) : \A w \in Present(d, col) : v >= w

\* Series.nunique(): the number of distinct present values
nunique(d, col) == Cardinality(Present(d, col))

\* Series.unique() of a string column
unique(d, col) == Column(d, col)

empty(d) == Len(d) = 0

(***************************************************************************)
(* The sheets a cycle may load                                             *)
(***************************************************************************)
Manufacturers == {"A", "B"}

Locations == {"DK", "DE"}

\* the cells of a sheet row: every mix of a present or blank stack minimum
\* and system figure at two production rates, and rows with a production
\* rate above the ceiling, a production rate that is text, a stack maximum
\* with and without a stack minimum, and a system figure that is text
SheetRows ==
    [manufacturer : Manufacturers, Location : {"DK"},
     production : {10040, 80000}, stack_min : {NaN, 424},
     stack_max : {NaN}, system : {NaN, 500}]
    \cup
    {[manufacturer |-> "B", Location |-> "DE", production |-> 150000,
      stack_min |-> 424, stack_max |-> NaN, system |-> 500],
     [manufacturer |-> "B", Location |-> "DE", production |-> Text,
      stack_min |-> NaN, stack_max |-> 480, system |-> 500],
     [manufacturer |-> "A", Location |-> "DE", production |-> 80000,
      stack_min |-> Text, stack_max |-> 476, system |-> Text],
     [manufacturer |-> "B", Location |-> "DK", production |-> 10040,
      stack_min |-> 424, stack_max |-> 480, system |-> 560]}

\* the positions a user may drag the production slider to (whole Nm3/h)
ProdPoints == {100, 400, 800}

\* the positions a user may drag the power slider to (hundredths of kWh/Nm3)
PowerPoints == {420, 480, 500, 560}

\* pd.read_csv: the rows of the sheet under the index labels 1..n
read_csv(cells) ==
    [i \in 1..Len(cells) |->
        [idx |-> i,
         manufacturer |-> cells[i].manufacturer,
         Location |-> cells[i].Location,
         production |-> cells[i].production,
         stack_min |-> cells[i].stack_min,
         stack_max |-> cells[i].stack_max,
         system |-> cells[i].system]]

(***************************************************************************)
(* Lines 19-32: coercion, rounding and the combined stack column           *)
(***************************************************************************)
DeriveRow(r) ==
    LET production == round0(to_numeric(r.production))
        stack_min  == round1(to_numeric(r.stack_min))
        stack_max  == round1(to_numeric(r.stack_max))
        system     == round1(to_numeric(r.system))
    IN  [idx |-> r.idx,
         manufacturer |-> r.manufacturer,
         Location |-> r.Location,
         production |-> production,
         stack_min |-> stack_min,
         stack_max |-> stack_max,
         system |-> system,
         stack_combined |-> combine_first(stack_min, stack_max)]

DeriveFrame(d) == [i \in 1..Len(d) |-> DeriveRow(d[i])]

(***************************************************************************)
(* The masks                                                               *)
(***************************************************************************)
\* lines 35 and 38: dropna on the production rate, then the 1200 ceiling
dropna(d) == SelectSeq(d, LAMBDA r : ~isna(r.production))

\* the ceiling with a digit too many
Ceiling_12000(d) == SelectSeq(d, LAMBDA r : Le(r.production, units(12000)))

Ceiling(d) == SelectSeq(d, LAMBDA r : Le(r.production, units(1200)))

\* the selection mask reading an empty selection as "everything"
SelectionFilter_EmptyMeansAll(d, companies, locations) ==
    SelectSeq(d, LAMBDA r : /\ (companies = {} \/ r.manufacturer \in companies)
                            /\ (locations = {} \/ r.Location \in locations))

\* lines 51-52: manufacturer.isin(...) & Location.isin(...)
SelectionFilter(d, companies, locations) ==
    SelectSeq(d, LAMBDA r : r.manufacturer \in companies /\ r.Location \in locations)

\* the production interval open at its lower end
ProductionFilter_OpenBelow(d, lo, hi) ==
    SelectSeq(d, LAMBDA r : Gt(r.production, units(lo)) /\ Le(r.production, units(hi)))

\* lines 69-70: the closed production interval, in whole units
ProductionFilter(d, lo, hi) ==
    SelectSeq(d, LAMBDA r : Ge(r.production, units(lo)) /\ Le(r.production, units(hi)))

\* lines 83-86: the closed power interval on one column
PowerFilter(d, col, lo, hi) ==
    SelectSeq(d, LAMBDA r : Ge(r[col], lo) /\ Le(r[col], hi))

\* line 62: the guard of the sidebar range controls
SidebarGuard(companies, d) ==
    \/ Cardinality(companies) > 1
    \/ nunique(d, "stack_combined") > 1
    \/ nunique(d, "system") > 1

\* lines 65-66: the bounds of the production slider
ProdSliderMin(d) == int(ColMin(d, "production"))
ProdSliderMax(d) == int(ColMax(d, "production"))

\* lines 73-74 and 114-117: the power extremes of a frame
PowerMin(d) == PyMin(ColMin(d, "stack_combined"), ColMin(d, "system"))
PowerMax(d) == PyMax(ColMax(d, "stack_combined"), ColMax(d, "system"))

\* the x-axis upper bound taken from the least production rate
NetProdMax_FromMin(d) == PyMax(ColMin(d, "production"), ColMin(d, "production"))

\* lines 110-113: the production extremes of a frame
NetProdMax(d) == PyMax(ColMax(d, "production"), ColMax(d, "production"))

\* lines 100-107: the three-way split by measurement presence
WithStackOnly(d) ==
    SelectSeq(d, LAMBDA r : ~isna(r.stack_combined) /\ isna(r.system))

WithSystemOnly(d) ==
    SelectSeq(d, LAMBDA r : isna(r.stack_combined) /\ ~isna(r.system))

\* the both-measurements mask with line 101's system test copied into it
WithBoth_SystemMissing(d) ==
    SelectSeq(d, LAMBDA r : ~isna(r.stack_combined) /\ isna(r.system))

WithBoth(d) ==
    SelectSeq(d, LAMBDA r : ~isna(r.stack_combined) /\ ~isna(r.system))

\* lines 122 and 152: pd.concat of two frames
concat(a, b) == a \o b

(***************************************************************************)
(* The render cycle                                                        *)
(***************************************************************************)
NoSlider == [shown |-> FALSE, min_value |-> NaN, max_value |-> NaN,
             value |-> <<NaN, NaN>>]

NoFig == [shown |-> FALSE, data |-> <<>>, xaxis |-> <<NaN, NaN>>,
          yaxis |-> <<NaN, NaN>>]

\* line 17: the sheet has been read; nothing else is assigned yet
Init ==
    /\ pc = "coerce"
    /\ \E n \in 0..MaxRows : \E cells \in [1..n -> SheetRows] : df = read_csv(cells)
    /\ df_filtered = <<>>
    /\ selected_companies = {}
    /\ selected_locations = {}
    /\ no_data = FALSE
    /\ prod_slider = NoSlider
    /\ power_slider = NoSlider
    /\ power_min = NaN
    /\ power_max = NaN
    /\ df_filtered_stack = <<>>
    /\ df_filtered_system = <<>>
    /\ df_with_stack_only = <<>>
    /\ df_with_system_only = <<>>
    /\ df_with_both = <<>>
    /\ net_prod_max_all = NaN
    /\ power_max_all = NaN
    /\ fig_stack = NoFig
    /\ fig_system = NoFig

\* lines 19-32
Derive ==
    /\ pc = "coerce"
    /\ df' = DeriveFrame(df)
    /\ pc' = "ceiling"
    /\ UNCHANGED <<df_filtered, selected_companies, selected_locations, no_data,
                   prod_slider, power_slider, power_min, power_max,
                   df_filtered_stack, df_filtered_system, df_with_stack_only,
                   df_with_system_only, df_with_both, net_prod_max_all,
                   power_max_all, fig_stack, fig_system>>

\* lines 34-38
CeilingFilter ==
    /\ pc = "ceiling"
    /\ df_filtered' = Ceiling(dropna(df))
    /\ pc' = "select"
    /\ UNCHANGED <<df, selected_companies, selected_locations, no_data,
                   prod_slider, power_slider, power_min, power_max,
                   df_filtered_stack, df_filtered_system, df_with_stack_only,
                   df_with_system_only, df_with_both, net_prod_max_all,
                   power_max_all, fig_stack, fig_system>>

\* lines 42-52: the two multiselects offer the values present and the user
\* keeps any subset of them; the mask is applied
Select ==
    /\ pc = "select"
    /\ \E companies \in SUBSET unique(df_filtered, "manufacturer") :
       \E locations \in SUBSET unique(df_filtered, "Location") :
          /\ selected_companies' = companies
          /\ selected_locations' = locations
          /\ df_filtered' = SelectionFilter(df_filtered, companies, locations)
    /\ pc' = "branch"
    /\ UNCHANGED <<df, no_data, prod_slider, power_slider, power_min, power_max,
                   df_filtered_stack, df_filtered_system, df_with_stack_only,
                   df_with_system_only, df_with_both, net_prod_max_all,
                   power_max_all, fig_stack, fig_system>>

\* lines 54-55: df_filtered_stack and df_filtered_system stay unassigned
NoData ==
    /\ pc = "branch"
    /\ empty(df_filtered)
    /\ no_data' = TRUE
    /\ pc' = "partition"
    /\ UNCHANGED <<df, df_filtered, selected_companies, selected_locations,
                   prod_slider, power_slider, power_min, power_max,
                   df_filtered_stack, df_filtered_system, df_with_stack_only,
                   df_with_system_only, df_with_both, net_prod_max_all,
                   power_max_all, fig_stack, fig_system>>

\* lines 62-70: the production slider and its mask
ProductionSlider ==
    /\ pc = "branch"
    /\ ~empty(df_filtered)
    /\ SidebarGuard(selected_companies, df)
    /\ LET lowest  == ProdSliderMin(df_filtered)
           highest == ProdSliderMax(df_filtered)
           stops   == {p \in ProdPoints \cup {lowest, highest} :
                          lowest <= p /\ p <= highest}
       IN  \E net_prod_min \in stops : \E net_prod_max \in stops :
              /\ net_prod_min <= net_prod_max
              /\ prod_slider' = [shown |-> TRUE, min_value |-> lowest,
                                 max_value |-> highest,
                                 value |-> <<net_prod_min, net_prod_max>>]
              /\ df_filtered' = ProductionFilter(df_filtered, net_prod_min, net_prod_max)
    /\ pc' = "power"
    /\ UNCHANGED <<df, selected_companies, selected_locations, no_data,
                   power_slider, power_min, power_max, df_filtered_stack,
                   df_filtered_system, df_with_stack_only, df_with_system_only,
                   df_with_both, net_prod_max_all, power_max_all, fig_stack,
                   fig_system>>

\* lines 73-86 with power_min < power_max: the power slider is shown and the
\* user's interval filters the two frames
PowerSlider ==
    /\ pc = "power"
    /\ Lt(PowerMin(df_filtered), PowerMax(df_filtered))
    /\ LET lowest  == PowerMin(df_filtered)
           highest == PowerMax(df_filtered)
           stops   == {p \in PowerPoints \cup {lowest, highest} :
                          lowest <= p /\ p <= highest}
       IN  \E lo \in stops : \E hi \in stops :
              /\ lo <= hi
              /\ power_slider' = [shown |-> TRUE, min_value |-> lowest,
                                  max_value |-> highest, value |-> <<lo, hi>>]
              /\ power_min' = lo
              /\ power_max' = hi
              /\ df_filtered_stack' = PowerFilter(df_filtered, "stack_combined", lo, hi)
              /\ df_filtered_system' = PowerFilter(df_filtered, "system", lo, hi)
    /\ pc' = "partition"
    /\ UNCHANGED <<df, df_filtered, selected_companies, selected_locations,
                   no_data, prod_slider, df_with_stack_only, df_with_system_only,
                   df_with_both, net_prod_max_all, power_max_all, fig_stack,
                   fig_system>>

\* lines 73-86 without power_min < power_max: no slider, the computed
\* extremes filter the two frames
PowerNoSlider ==
    /\ pc = "power"
    /\ ~Lt(PowerMin(df_filtered), PowerMax(df_filtered))
    /\ power_min' = PowerMin(df_filtered)
    /\ power_max' = PowerMax(df_filtered)
    /\ df_filtered_stack' = PowerFilter(df_filtered, "stack_combined",
                                        PowerMin(df_filtered), PowerMax(df_filtered))
    /\ df_filtered_system' = PowerFilter(df_filtered, "system",
                                         PowerMin(df_filtered), PowerMax(df_filtered))
    /\ pc' = "partition"
    /\ UNCHANGED <<df, df_filtered, selected_companies, selected_locations,
                   no_data, prod_slider, power_slider, df_with_stack_only,
                   df_with_system_only, df_with_both, net_prod_max_all,
                   power_max_all, fig_stack, fig_system>>

\* lines 87-89: no range control at all
NoSidebar ==
    /\ pc = "branch"
    /\ ~empty(df_filtered)
    /\ ~SidebarGuard(selected_companies, df)
    /\ df_filtered_stack' = df_filtered
    /\ df_filtered_system' = df_filtered
    /\ pc' = "partition"
    /\ UNCHANGED <<df, df_filtered, selected_companies, selected_locations,
                   no_data, prod_slider, power_slider, power_min, power_max,
                   df_with_stack_only, df_with_system_only, df_with_both,
                   net_prod_max_all, power_max_all, fig_stack, fig_system>>

\* lines 99-117: the split and the axis extremes, both from df_filtered
Partition ==
    /\ pc = "partition"
    /\ df_with_stack_only' = WithStackOnly(df_filtered)
    /\ df_with_system_only' = WithSystemOnly(df_filtered)
    /\ df_with_both' = WithBoth(df_filtered)
    /\ net_prod_max_all' = NetProdMax(df_filtered)
    /\ power_max_all' = PowerMax(df_filtered)
    /\ pc' = "plot_stack"
    /\ UNCHANGED <<df, df_filtered, selected_companies, selected_locations,
                   no_data, prod_slider, power_slider, power_min, power_max,
                   df_filtered_stack, df_filtered_system, fig_stack, fig_system>>

\* the figure px.scatter and update_layout build from a frame
Figure(data) ==
    [shown |-> TRUE, data |-> data,
     xaxis |-> <<0 - units(10), net_prod_max_all>>,
     yaxis |-> <<290, power_max_all>>]

\* lines 120-147
PlotStack ==
    /\ pc = "plot_stack"
    /\ ~empty(df_with_stack_only) \/ ~empty(df_with_both)
    /\ fig_stack' = Figure(concat(df_with_stack_only, df_with_both))
    /\ pc' = "plot_system"
    /\ UNCHANGED <<df, df_filtered, selected_companies, selected_locations,
                   no_data, prod_slider, power_slider, power_min, power_max,
                   df_filtered_stack, df_filtered_system, df_with_stack_only,
                   df_with_system_only, df_with_both, net_prod_max_all,
                   power_max_all, fig_system>>

\* line 120 false: no stack chart
SkipStack ==
    /\ pc = "plot_stack"
    /\ ~(~empty(df_with_stack_only) \/ ~empty(df_with_both))
    /\ pc' = "plot_system"
    /\ UNCHANGED <<df, df_filtered, selected_companies, selected_locations,
                   no_data, prod_slider, power_slider, power_min, power_max,
                   df_filtered_stack, df_filtered_system, df_with_stack_only,
                   df_with_system_only, df_with_both, net_prod_max_all,
                   power_max_all, fig_stack, fig_system>>

\* lines 150-177
PlotSystem ==
    /\ pc = "plot_system"
    /\ ~empty(df_with_system_only) \/ ~empty(df_with_both)
    /\ fig_system' = Figure(concat(df_with_system_only, df_with_both))
    /\ pc' = "done"
    /\ UNCHANGED <<df, df_filtered, selected_companies, selected_locations,
                   no_data, prod_slider, power_slider, power_min, power_max,
                   df_filtered_stack, df_filtered_system, df_with_stack_only,
                   df_with_system_only, df_with_both, net_prod_max_all,
                   power_max_all, fig_stack>>

\* line 150 false: no system chart
SkipSystem ==
    /\ pc = "plot_system"
    /\ ~(~empty(df_with_system_only) \/ ~empty(df_with_both))
    /\ pc' = "done"
    /\ UNCHANGED <<df, df_filtered, selected_companies, selected_locations,
                   no_data, prod_slider, power_slider, power_min, power_max,
                   df_filtered_stack, df_filtered_system, df_with_stack_only,
                   df_with_system_only, df_with_both, net_prod_max_all,
                   power_max_all, fig_stack, fig_system>>

Next ==
    \/ Derive
    \/ CeilingFilter
    \/ Select
    \/ NoData
    \/ ProductionSlider
    \/ PowerSlider
    \/ PowerNoSlider
    \/ NoSidebar
    \/ Partition
    \/ PlotStack
    \/ SkipStack
    \/ PlotSystem
    \/ SkipSystem

Spec == Init /\ [][Next]_vars

(***************************************************************************)
(* Vocabulary of the properties                                            *)
(***************************************************************************)
\* the rows a chart was handed
StackSeries == Range(fig_stack.data)
SystemSeries == Range(fig_system.data)

\* the script is past the coercion, so df carries the derived columns
Derived == pc # "coerce"

\* row r of df is kept by the dropna and the 1200 ceiling
PassesCeiling(r) == ~isna(r.production) /\ r.production <= 120000

\* row r of df is kept by the two multiselects
PassesSelection(r) ==
    r.manufacturer \in selected_companies /\ r.Location \in selected_locations

\* row r of df is kept by the production interval, when one was asked for
PassesProductionRange(r) ==
    prod_slider.shown =>
        /\ r.production >= 100 * prod_slider.value[1]
        /\ r.production <= 100 * prod_slider.value[2]

HasStack(r) == ~isna(r.stack_min) \/ ~isna(r.stack_max)
HasSystem(r) == ~isna(r.system)

\* the power measurements present among the rows of a frame
PowersOf(d) == {r.stack_combined : r \in {q \in Range(d) : ~isna(q.stack_combined)}}
               \cup {r.system : r \in {q \in Range(d) : ~isna(q.system)}}

IsLargest(v, S) == v \in S /\ \A w \in S : w <= v
IsLeast(v, S) == v \in S /\ \A w \in S : v <= w

\* the production rates of the rows of df that pass a test
ProductionsWhere(Test(_)) == {df[i].production : i \in {j \in 1..Len(df) : Test(df[j])}}

PassesCeilingAndSelection(r) == PassesCeiling(r) /\ PassesSelection(r)

(***************************************************************************)
(* C1: the selected power range [min, max] is applied to both plotted      *)
(* series: every row of the stack chart has its combined stack power in    *)
(* the range and every row of the system chart its system power.           *)
(* The script computes df_filtered_stack and df_filtered_system with the   *)
(* range and then plots from df_filtered, so this fails.                   *)
(***************************************************************************)
C1_PowerRangeApplied ==
    (pc = "done" /\ power_slider.shown) =>
        /\ \A r \in StackSeries :
              power_min <= r.stack_combined /\ r.stack_combined <= power_max
        /\ \A r \in SystemSeries :
              power_min <= r.system /\ r.system <= power_max

(***************************************************************************)
(* C2: every row that reaches either plotted series has a production rate  *)
(* that is present and at most 1200; a row of the sheet whose rate is      *)
(* missing or above 1200 (1500, say) is in no series.                      *)
(***************************************************************************)
C2_PlottedRowsUnderCeiling ==
    /\ \A r \in StackSeries \cup SystemSeries :
          ~isna(r.production) /\ r.production <= 120000
    /\ Derived =>
          \A i \in 1..Len(df) :
             (isna(df[i].production) \/ df[i].production > 120000) =>
                 \A r \in StackSeries \cup SystemSeries : r.idx # i

C2_Witness ==
    /\ pc = "done"
    /\ fig_stack.shown
    /\ fig_system.shown
    /\ \E i \in 1..Len(df) : df[i].production = 150000 \/ isna(df[i].production)

(***************************************************************************)
(* C3: for every row, the combined stack power is the stack minimum when   *)
(* that is present, else the stack maximum when that is present, else      *)
(* missing; it is missing only when both are missing.                      *)
(***************************************************************************)
C3_FirstNonMissingWins ==
    Derived =>
        \A i \in 1..Len(df) :
           /\ ~isna(df[i].stack_min) => df[i].stack_combined = df[i].stack_min
           /\ (isna(df[i].stack_min) /\ ~isna(df[i].stack_max)) =>
                 df[i].stack_combined = df[i].stack_max
           /\ isna(df[i].stack_combined) <=>
                 (isna(df[i].stack_min) /\ isna(df[i].stack_max))

C3_Witness ==
    /\ Derived
    /\ \E i \in 1..Len(df) :
          ~isna(df[i].stack_min) /\ ~isna(df[i].stack_max)
          /\ df[i].stack_min # df[i].stack_max
    /\ \E i \in 1..Len(df) : isna(df[i].stack_min) /\ ~isna(df[i].stack_max)

(***************************************************************************)
(* C4: a row that passes the ceiling, the manufacturer and location        *)
(* selection and the production range and has both a stack and a system    *)
(* measurement is in both series; a row with neither stack figure but a    *)
(* system figure is never in the stack series, and is in the system series *)
(* when it passes the filters.                                             *)
(***************************************************************************)
C4_SeriesFollowPresence ==
    pc = "done" =>
        \A i \in 1..Len(df) :
           LET r == df[i]
               passes == PassesCeiling(r) /\ PassesSelection(r)
                         /\ PassesProductionRange(r)
           IN  /\ (passes /\ HasStack(r) /\ HasSystem(r)) =>
                     r \in StackSeries /\ r \in SystemSeries
               /\ (~HasStack(r) /\ HasSystem(r)) =>
                     /\ r \notin StackSeries
                     /\ passes => r \in SystemSeries

C4_Witness ==
    /\ pc = "done"
    /\ \E r \in StackSeries : r \in SystemSeries
    /\ \E r \in SystemSeries : ~HasStack(r) /\ r \notin StackSeries

(***************************************************************************)
(* C5: a range control is presented only when its domain has min < max;    *)
(* where it is not presented the rows are not restricted.                  *)
(* The production slider is guarded by line 62 (more than one company      *)
(* selected, or more than one distinct power value in the whole sheet),    *)
(* not by its own domain, so it is presented with min = max.               *)
(***************************************************************************)
C5_RangeControlOnlyWithSpread ==
    /\ prod_slider.shown => prod_slider.min_value < prod_slider.max_value
    /\ power_slider.shown => power_slider.min_value < power_slider.max_value
    /\ (pc = "done" /\ ~prod_slider.shown) =>
          \A i \in 1..Len(df) :
             PassesCeilingAndSelection(df[i]) => df[i] \in Range(df_filtered)

(***************************************************************************)
(* C6: when the filters leave nothing to plot (both series empty), the     *)
(* cycle writes the "no data" message.                                     *)
(* The message is written only when the frame is empty right after the     *)
(* manufacturer and location selection (line 54).                          *)
(***************************************************************************)
C6_EmptyResultSignalled ==
    (pc = "done" /\ StackSeries = {} /\ SystemSeries = {}) => no_data

(***************************************************************************)
(* C7: filtering composes: filtering a frame by selection A and then by B  *)
(* gives the rows of filtering once by the intersection of A and B, for    *)
(* manufacturer sets, location sets and closed production intervals, and a *)
(* filter applied twice gives what it gives once.  It is checked on the    *)
(* whole frame and on the frame left by the ceiling, for every sheet; and  *)
(* in the pipeline, the ceiling, the selection and the production interval *)
(* applied in turn leave what one pass with the intersected interval       *)
(* leaves.                                                                 *)
(***************************************************************************)
C7_FilteringComposes ==
    /\ pc = "select" =>
           \A S \in {df, df_filtered} :
              /\ \A A \in SUBSET Manufacturers : \A B \in SUBSET Manufacturers :
                    SelectionFilter(SelectionFilter(S, A, Locations), B, Locations)
                        = SelectionFilter(S, A \cap B, Locations)
              /\ \A A \in SUBSET Locations : \A B \in SUBSET Locations :
                    SelectionFilter(SelectionFilter(S, Manufacturers, A), Manufacturers, B)
                        = SelectionFilter(S, Manufacturers, A \cap B)
              /\ \A A \in SUBSET Manufacturers : \A B \in SUBSET Locations :
                    SelectionFilter(SelectionFilter(S, A, Locations), Manufacturers, B)
                        = SelectionFilter(S, A, B)
              /\ \A a \in ProdPoints : \A b \in ProdPoints :
                 \A c \in ProdPoints : \A d \in ProdPoints :
                    ProductionFilter(ProductionFilter(S, a, b), c, d)
                        = ProductionFilter(S, IF a >= c THEN a ELSE c,
                                              IF b <= d THEN b ELSE d)
    /\ pc = "power" =>
              df_filtered =
                  SelectionFilter(
                      ProductionFilter(df, prod_slider.value[1],
                          IF prod_slider.value[2] <= 1200
                          THEN prod_slider.value[2] ELSE 1200),
                      selected_companies, selected_locations)

C7_Witness ==
    /\ pc = "power"
    /\ Len(df) = 2
    /\ df[1].manufacturer # df[2].manufacturer
    /\ PassesCeilingAndSelection(df[1])
    /\ PassesCeilingAndSelection(df[2])
    /\ Len(df_filtered) = 1

(***************************************************************************)
(* C8 as written: the axis hints of both charts are [-10, upper end of the *)
(* selected production range] and [2.9, upper end of the selected power    *)
(* range].  The script takes both upper bounds from the rows of            *)
(* df_filtered, so this fails.                                             *)
(***************************************************************************)
C8_AxisUpperFromSelectedRanges ==
    \A fig \in {fig_stack, fig_system} :
       fig.shown =>
          /\ fig.xaxis[1] = -1000
          /\ fig.yaxis[1] = 290
          /\ prod_slider.shown => fig.xaxis[2] = 100 * prod_slider.value[2]
          /\ power_slider.shown => fig.yaxis[2] = power_slider.value[2]

(***************************************************************************)
(* C8 amended: the axis hints of both charts are [-10, largest production  *)
(* rate among the rows left by the filters], which never exceeds the upper *)
(* end of the selected production range, and [2.9, y], where y comes from  *)
(* the power measurements of the rows left by the filters and not from the *)
(* selected power range: the largest present power measurement when some   *)
(* such row has a stack measurement, and NaN when none has.                *)
(***************************************************************************)
C8_AxisUpperFromFilteredRows ==
    \A fig \in {fig_stack, fig_system} :
       fig.shown =>
          /\ fig.xaxis[1] = -1000
          /\ fig.yaxis[1] = 290
          /\ IsLargest(fig.xaxis[2], {r.production : r \in Range(df_filtered)})
          /\ prod_slider.shown => fig.xaxis[2] <= 100 * prod_slider.value[2]
          /\ IF \E r \in Range(df_filtered) : ~isna(r.stack_combined)
             THEN IsLargest(fig.yaxis[2], PowersOf(df_filtered))
             ELSE isna(fig.yaxis[2])

C8_Witness ==
    /\ pc = "done"
    /\ fig_stack.shown
    /\ fig_system.shown
    /\ prod_slider.shown
    /\ fig_stack.xaxis[2] < 100 * prod_slider.value[2]
    /\ power_slider.shown
    /\ fig_system.yaxis[2] > power_slider.value[2]

(***************************************************************************)
(* C9 as written: the bounds and the default interval of the production    *)
(* slider are the least and largest production rate of the data left by    *)
(* the dropna and the ceiling, whatever is selected, and the default       *)
(* interval drops no row.  The bounds are taken after the manufacturer and *)
(* location selection, so this fails.                                      *)
(***************************************************************************)
C9_BoundsFromCeilingData ==
    prod_slider.shown =>
        /\ IsLeast(100 * prod_slider.min_value, ProductionsWhere(PassesCeiling))
        /\ IsLargest(100 * prod_slider.max_value, ProductionsWhere(PassesCeiling))
        /\ (pc # "branch"
            /\ prod_slider.value = <<prod_slider.min_value, prod_slider.max_value>>) =>
              \A i \in 1..Len(df) :
                 PassesCeilingAndSelection(df[i]) => df[i] \in Range(df_filtered)

(***************************************************************************)
(* C9 amended: whenever the production slider is presented, its bounds and *)
(* its default interval are the least and largest production rate of the   *)
(* rows left by the dropna, the ceiling and the manufacturer and location  *)
(* selection; with the interval left at its default the production filter  *)
(* drops no row.                                                           *)
(***************************************************************************)
C9_BoundsFromSelectedData ==
    prod_slider.shown =>
        /\ IsLeast(100 * prod_slider.min_value,
                   ProductionsWhere(PassesCeilingAndSelection))
        /\ IsLargest(100 * prod_slider.max_value,
                     ProductionsWhere(PassesCeilingAndSelection))
        /\ (pc # "branch"
            /\ prod_slider.value = <<prod_slider.min_value, prod_slider.max_value>>) =>
              \A i \in 1..Len(df) :
                 PassesCeilingAndSelection(df[i]) => df[i] \in Range(df_filtered)

C9_Witness ==
    /\ prod_slider.shown
    /\ pc = "power"
    /\ prod_slider.min_value < prod_slider.max_value
    /\ prod_slider.value = <<prod_slider.min_value, prod_slider.max_value>>
    /\ Len(df_filtered) = 2

(***************************************************************************)
(* C10: whenever a chart is rendered its y-axis upper bound is a defined   *)
(* number, the largest present power measurement among the filtered rows,  *)
(* also when every filtered row lacks one of the two measurements.         *)
(* max(stack.max(), system.max()) is NaN when no filtered row has a stack  *)
(* measurement, so this fails.                                             *)
(***************************************************************************)
C10_YUpperDefined ==
    \A fig \in {fig_stack, fig_system} :
       fig.shown =>
          /\ ~isna(fig.yaxis[2])
          /\ IsLargest(fig.yaxis[2], PowersOf(df_filtered))

====
